---------------------------- MODULE Spec2Model ----------------------------
(***************************************************************************)
(* A model of the allocator in src/malloc.c: a singly linked list of       *)
(* block headers threaded through memory obtained from sbrk, with          *)
(* malloc, free, realloc and calloc on top of it.                          *)
(*                                                                         *)
(* Data model: LP64 (size_t and pointers are 64 bits, int is 32 bits), so  *)
(* sizeof(BlockHeader) is 24.  Addresses and sizes are TLA+ integers; a    *)
(* size_t value that has wrapped below zero is kept as its negative        *)
(* representative and compared with ULess/ULeq, which order two values the *)
(* way the unsigned comparison of the code does.                           *)
(*                                                                         *)
(* Memory is kept in two maps.  hdr holds the fields of every header       *)
(* GetBlock has written, by address.  mem holds the other bytes, as a set  *)
(* of maximal runs [lo, hi) of one byte value; a byte in no run is 0, as   *)
(* the pages sbrk hands out are, and the bytes a header occupies are runs  *)
(* of HeaderByte.  A memset or memcpy that reaches the bytes of a header,   *)
(* or memory above the break, ends the behaviour with status "wild": from  *)
(* there the header fields depend on payload data, or the access faults,   *)
(* and the model follows the program no further.                           *)
(***************************************************************************)
EXTENDS Integers, Sequences, FiniteSets, TLC

(* src/malloc.c:7-9,17 *)
CHUNKSIZE == 64 * 1024
BUSDIV == 16
HEADERSIZE == 24
NULL == 0

(***************************************************************************)
(* Bounds of the model and the inputs the client draws from.               *)
(***************************************************************************)
\* sbrk refuses to extend the break once this many blocks were carved.
MaxBlocks == 2
\* The sizes the client asks for when it gets a new block, and those it
\* resizes a block to.
MallocSizes == {0, 40}
ReallocSizes == {0, 16, 40, 65512}
\* A size no chunk of CHUNKSIZE bytes holds.
Oversizes == {65600}
\* calloc's element counts and element sizes.
Counts == {0, 2}
ElemSizes == {8}
\* The byte values the client writes into its blocks.
FillBytes == {1}
\* What a byte of memory reads as where a header lies.
HeaderByte == 0 - 1
\* The values an uninitialised size_t local can hold: the least and the
\* greatest size_t (2^64 - 1, kept as -1).
Garbage == {0, 0 - 1}
\* The break the process starts with.  The kernel page-aligns it.
HeapStart == 64 * CHUNKSIZE
\* Every break the extension primitive could report at start-up, by its
\* residue modulo BUSDIV.
AnyHeapStart == {HeapStart + r : r \in 0 .. (BUSDIV - 1)}

VARIABLES
    brk,              \* the program break, what sbrk(0) returns
    BlockBase,        \* malloc.c:20
    CurrentTopBreak,  \* malloc.c:22
    CurrentFreeSpace, \* malloc.c:24
    hdr,              \* header address -> [size, free, next]
    mem,              \* payload bytes: set of runs [lo, hi, v]
    log,              \* results of the sbrk(delta > 0) calls of the last call
    status,           \* "ok", or how the process stopped
    live,             \* the pointers the client holds
    call              \* the last call: operation, arguments, result

vars == <<brk, BlockBase, CurrentTopBreak, CurrentFreeSpace, hdr, mem, log,
          status, live, call>>

(***************************************************************************)
(* Arithmetic of the code.                                                 *)
(***************************************************************************)
Max(a, b) == IF a >= b THEN a ELSE b
Min(a, b) == IF a <= b THEN a ELSE b

\* while (x % BUSDIV != 0) x++;
AlignUp(x) == IF x % BUSDIV = 0 THEN x ELSE x + (BUSDIV - (x % BUSDIV))
\* while (x % BUSDIV != 0) x--;
AlignDown(x) == x - (x % BUSDIV)

\* a < b and a <= b on size_t, for values kept as signed representatives.
ULess(a, b) == IF (a < 0) = (b < 0) THEN a < b ELSE b < 0
ULeq(a, b) == a = b \/ ULess(a, b)

(***************************************************************************)
(* Memory contents.                                                        *)
(***************************************************************************)
Run(lo, hi, v) == [lo |-> lo, hi |-> hi, v |-> v]

\* The runs of m with the bytes of [lo, hi) taken out (they read 0).
Cut(m, lo, hi) ==
    IF lo >= hi THEN m
    ELSE {r \in m : r.hi <= lo \/ r.lo >= hi}
         \cup {Run(r.lo, lo, r.v) : r \in {x \in m : x.lo < lo /\ x.hi > lo}}
         \cup {Run(hi, r.hi, r.v) : r \in {x \in m : x.lo < hi /\ x.hi > hi}}

\* m with the bytes of [lo, hi), which m holds in no run, set to v; the
\* runs stay maximal.
Add(m, lo, hi, v) ==
    IF v = 0 \/ lo >= hi THEN m
    ELSE LET below == {r \in m : r.v = v /\ r.hi = lo}
             above == {r \in m : r.v = v /\ r.lo = hi}
             lo2 == IF below = {} THEN lo ELSE (CHOOSE r \in below : TRUE).lo
             hi2 == IF above = {} THEN hi ELSE (CHOOSE r \in above : TRUE).hi
         IN  (m \ (below \cup above)) \cup {Run(lo2, hi2, v)}

RECURSIVE AddAll(_, _)
AddAll(m, runs) ==
    IF runs = {} THEN m
    ELSE LET r == CHOOSE x \in runs : TRUE
         IN  AddAll(Add(m, r.lo, r.hi, r.v), runs \ {r})

\* memset(lo, v, hi - lo)
Store(m, lo, hi, v) == Add(Cut(m, lo, hi), lo, hi, v)

\* memcpy(dst, src, n)
Copy(m, dst, src, n) ==
    IF n <= 0 THEN m
    ELSE AddAll(Cut(m, dst, dst + n),
                {Run(Max(r.lo, src) - src + dst, Min(r.hi, src + n) - src + dst, r.v) :
                   r \in {x \in m : x.lo < src + n /\ x.hi > src}})

ByteAt(m, a) ==
    IF \E r \in m : r.lo <= a /\ a < r.hi
    THEN (CHOOSE r \in m : r.lo <= a /\ a < r.hi).v
    ELSE 0

\* The offsets in 0 .. n-1 at which the bytes from address a on can change.
Points(m, a, n) ==
    {0} \cup {r.lo - a : r \in {x \in m : a < x.lo /\ x.lo < a + n}}
        \cup {r.hi - a : r \in {x \in m : a < x.hi /\ x.hi < a + n}}

\* Every byte of [a, a + n) holds v.
AllBytes(m, a, n, v) == \A i \in Points(m, a, n) : ByteAt(m, a + i) = v

\* The n bytes at a1 in m1 are the n bytes at a2 in m2.
SameBytes(m1, a1, m2, a2, n) ==
    \A i \in Points(m1, a1, n) \cup Points(m2, a2, n) :
        ByteAt(m1, a1 + i) = ByteAt(m2, a2 + i)

\* [lo, hi) reaches into the bytes of some header.
HitsHeader(h, lo, hi) ==
    lo < hi /\ \E a \in DOMAIN h : lo < a + HEADERSIZE /\ a < hi

(***************************************************************************)
(* The allocator state as one record, so that the functions of the code    *)
(* can be composed.                                                        *)
(***************************************************************************)
Cur == [brk |-> brk, BlockBase |-> BlockBase,
        CurrentTopBreak |-> CurrentTopBreak,
        CurrentFreeSpace |-> CurrentFreeSpace,
        hdr |-> hdr, mem |-> mem, log |-> log, status |-> status]

Result(st, ret) == [st |-> st, ret |-> ret]

Stop(st, how) == [st EXCEPT !.status = how]

\* st after memset or memcpy went over [lo, hi): the process goes on unless
\* that reached a header or memory above the break.
Touched(st, lo, hi) ==
    IF st.status = "ok" /\ (HitsHeader(st.hdr, lo, hi) \/ (lo < hi /\ hi > st.brk))
    THEN Stop(st, "wild") ELSE st

\* sbrk(delta) with delta > 0 succeeds: the environment allows it (ok) and
\* the model's cap on the number of blocks is not reached.
SbrkOk(st, ok) == ok /\ Cardinality(DOMAIN st.hdr) < MaxBlocks

(***************************************************************************)
(* GetBlock, malloc.c:27-122.  sbrk(0) is a pure query and does not fail.  *)
(***************************************************************************)
\* A faulty Extend: the result of sbrk(delta) is not looked at.
ExtendUnchecked(st, blockSize, ok) ==
    LET nextBreak == st.brk + blockSize
        delta == IF blockSize > CHUNKSIZE THEN blockSize ELSE CHUNKSIZE
        moved == IF SbrkOk(st, ok) THEN delta ELSE 0
    IN  IF ~(st.CurrentTopBreak = 0 \/ nextBreak > st.CurrentTopBreak)
        THEN Result(st, TRUE)
        ELSE Result([st EXCEPT !.brk = st.brk + moved,
                               !.CurrentTopBreak = st.brk + moved,
                               !.CurrentFreeSpace = (st.brk + moved) - delta,
                               !.log = Append(@, SbrkOk(st, ok))],
                    TRUE)

\* malloc.c:57-107: extend the break by a chunk, or by the block when it is
\* larger, if the block does not fit below CurrentTopBreak.  The result is
\* FALSE when sbrk refused.
Extend(st, blockSize, ok) ==
    LET nextBreak == st.brk + blockSize
        delta == IF blockSize > CHUNKSIZE THEN blockSize ELSE CHUNKSIZE
    IN  IF ~(st.CurrentTopBreak = 0 \/ nextBreak > st.CurrentTopBreak)
        THEN Result(st, TRUE)
        ELSE IF ~SbrkOk(st, ok)
        THEN Result([st EXCEPT !.log = Append(@, FALSE)], FALSE)
        ELSE Result([st EXCEPT !.brk = st.brk + delta,
                               !.CurrentTopBreak = st.brk + delta,
                               !.CurrentFreeSpace = (st.brk + delta) - delta,
                               !.log = Append(@, TRUE)],
                    TRUE)

\* malloc.c:109-121: the header at CurrentFreeSpace, linked behind last.
Carve(st, last, size) ==
    LET block == st.CurrentFreeSpace
        h1 == IF last # NULL THEN [st.hdr EXCEPT ![last].next = block] ELSE st.hdr
        h2 == [a \in DOMAIN h1 \cup {block} |->
                 IF a = block THEN [size |-> size, free |-> 0, next |-> NULL]
                 ELSE h1[a]]
    IN  Result([st EXCEPT !.hdr = h2,
                          !.mem = Store(st.mem, block, block + HEADERSIZE, HeaderByte)],
               block)

GetBlock(st, last, size, ok) ==
    LET blockHeaderSize == AlignUp(HEADERSIZE)
        blockSize == AlignUp(size + blockHeaderSize)
        e == Extend(st, blockSize, ok)
    IN  IF e.ret THEN Carve(e.st, last, size) ELSE Result(e.st, NULL)

(***************************************************************************)
(* FindFreeBlock, malloc.c:127-138.  The walk has no memory, so coming     *)
(* back to a header it has left means it never ends (hang).                *)
(***************************************************************************)
RECURSIVE Scan(_, _, _, _, _)
Scan(h, linkBlock, last, size, seen) ==
    IF linkBlock = NULL
    THEN [block |-> NULL, last |-> last, hang |-> FALSE]
    ELSE IF h[linkBlock].free # 0 /\ h[linkBlock].size >= size
    THEN [block |-> linkBlock, last |-> last, hang |-> FALSE]
    ELSE IF linkBlock \in seen
    THEN [block |-> NULL, last |-> last, hang |-> TRUE]
    ELSE Scan(h, h[linkBlock].next, linkBlock, size, seen \cup {linkBlock})

\* A faulty FindFreeBlock: the first free block, of any size.
FindAnyFreeBlock(st, last, size) == Scan(st.hdr, st.BlockBase, last, 0, {})

FindFreeBlock(st, last, size) == Scan(st.hdr, st.BlockBase, last, size, {})

(***************************************************************************)
(* malloc, malloc.c:143-195.                                               *)
(***************************************************************************)
\* A faulty DataStart: the address after the header, as it is.
DataStartUnaligned(block) == block + HEADERSIZE

\* malloc.c:181-184
DataStart(block) == AlignUp(block + HEADERSIZE)

\* malloc.c:155-194: a block for a size that is not 0, carved or reused.
Allocate(st, size, ok) ==
    IF st.BlockBase = NULL
    THEN LET g == GetBlock(st, NULL, size, ok)
         IN  IF g.ret = NULL THEN Result(g.st, NULL)
             ELSE Result([g.st EXCEPT !.BlockBase = g.ret], DataStart(g.ret))
    ELSE LET f == FindFreeBlock(st, st.BlockBase, size)
         IN  IF f.hang THEN Result(Stop(st, "hang"), NULL)
             ELSE IF f.block = NULL
             THEN LET g == GetBlock(st, f.last, size, ok)
                  IN  IF g.ret = NULL THEN Result(g.st, NULL)
                      ELSE Result(g.st, DataStart(g.ret))
             ELSE Result([st EXCEPT !.hdr[f.block].free = 0], DataStart(f.block))

\* A faulty malloc: a size of 0 is served like any other.
mallocAnySize(st, size, ok) == Allocate(st, size, ok)

malloc(st, size, ok) ==
    IF size <= 0 THEN Result(st, NULL) ELSE Allocate(st, size, ok)

(***************************************************************************)
(* GetBlockHeader, malloc.c:198-214, and free, malloc.c:217-232.  A        *)
(* recovered address that is no header makes the write go wild.            *)
(***************************************************************************)
GetBlockHeader(ptr) == AlignDown(ptr - HEADERSIZE)

free(st, ptr) ==
    IF ptr = NULL THEN st
    ELSE LET blockStart == GetBlockHeader(ptr)
         IN  IF blockStart \notin DOMAIN st.hdr THEN Stop(st, "wild")
             ELSE [st EXCEPT !.hdr[blockStart].free = 1]

(***************************************************************************)
(* realloc, malloc.c:237-308.  The comparisons at lines 284-285 are        *)
(* between size_t and int, hence unsigned.                                 *)
(***************************************************************************)
\* malloc.c:262-265: assigned only when the block has a successor; otherwise
\* line 285 reads the uninitialised local, whose value is junk.
BlockFreeSpace(st, blockHeader, junk) ==
    LET blockSize == HEADERSIZE + st.hdr[blockHeader].size
        blockEnd == blockHeader + blockSize
    IN  IF st.hdr[blockHeader].next # NULL
        THEN st.hdr[blockHeader].next - blockEnd
        ELSE junk

\* malloc.c:273-276: a block for the bytes given up, put behind the header.
\* GetBlock returning NULL is dereferenced (segv).
Salvage(st, blockHeader, shrinkSize, ok) ==
    LET g == GetBlock(st, blockHeader, shrinkSize, ok)
    IN  IF g.ret = NULL THEN Stop(g.st, "segv")
        ELSE [g.st EXCEPT !.hdr[g.ret].next = g.st.hdr[blockHeader].next,
                          !.hdr[blockHeader].next = g.ret]

\* A faulty InPlace: the gap behind the block is not looked at.
InPlaceTailOnly(st, blockHeader, spaceNeeded, blockFreeSpace) ==
    /\ st.hdr[blockHeader].next = NULL
    /\ ULess(st.CurrentFreeSpace, spaceNeeded)

\* malloc.c:283-285
InPlace(st, blockHeader, spaceNeeded, blockFreeSpace) ==
    \/ /\ st.hdr[blockHeader].next = NULL
       /\ ULess(st.CurrentFreeSpace, spaceNeeded)
    \/ ULeq(spaceNeeded, blockFreeSpace)

\* malloc.c:293-295.  malloc returning NULL is handed to memcpy (segv).
Relocate(st, ptr, blockHeader, size, ok) ==
    LET m == malloc(st, size, ok)
        n == m.st.hdr[blockHeader].size
        copied == [m.st EXCEPT !.mem = Copy(@, m.ret, ptr, n)]
    IN  IF m.st.status # "ok" THEN m
        ELSE IF m.ret = NULL THEN Result(Stop(m.st, "segv"), NULL)
        ELSE Result(free(Touched(Touched(copied, m.ret, m.ret + n), ptr, ptr + n), ptr),
                    m.ret)

\* malloc.c:252-307: the call on a pointer with a size that is not 0.
Resize(st, ptr, size, ok1, ok2, junk) ==
    LET blockHeader == GetBlockHeader(ptr)
    IN  IF blockHeader \notin DOMAIN st.hdr THEN Result(Stop(st, "wild"), NULL)
        ELSE
        LET blockFreeSpace == BlockFreeSpace(st, blockHeader, junk)
            spaceNeeded == size - st.hdr[blockHeader].size
            shrink == spaceNeeded < 0 /\ (spaceNeeded * (0 - 1)) > HEADERSIZE
            shrinkSize == (spaceNeeded * (0 - 1)) - HEADERSIZE
            st1 == IF shrink THEN Salvage(st, blockHeader, shrinkSize, ok1) ELSE st
        IN  IF st1.status # "ok" THEN Result(st1, NULL)
            ELSE IF InPlace(st1, blockHeader, spaceNeeded, blockFreeSpace)
            THEN Result([st1 EXCEPT !.hdr[blockHeader].size = size], ptr)
            ELSE Relocate(st1, ptr, blockHeader, size, ok2)

\* A faulty realloc: realloc(ptr, 0) gives the block up without freeing it.
reallocZeroKeeps(st, ptr, size, ok1, ok2, junk) ==
    IF ptr = NULL THEN malloc(st, size, ok1)
    ELSE IF size = 0 THEN Result(st, NULL)
    ELSE Resize(st, ptr, size, ok1, ok2, junk)

realloc(st, ptr, size, ok1, ok2, junk) ==
    IF ptr = NULL THEN malloc(st, size, ok1)
    ELSE IF size = 0 THEN Result(free(st, ptr), NULL)
    ELSE Resize(st, ptr, size, ok1, ok2, junk)

(***************************************************************************)
(* calloc, malloc.c:313-330.  memset(NULL, 0, n) with n > 0 faults, and so *)
(* does GetBlockHeader(NULL)->size in the debug line (dbg: DEBUG_MALLOC is *)
(* set).                                                                   *)
(***************************************************************************)
\* A faulty calloc: the block is handed out as malloc left it.
callocUnfilled(st, nmemb, size, ok, dbg) == malloc(st, nmemb * size, ok)

calloc(st, nmemb, size, ok, dbg) ==
    LET blockSize == nmemb * size
        m == malloc(st, blockSize, ok)
    IN  IF m.st.status # "ok" THEN m
        ELSE IF m.ret = NULL
        THEN IF blockSize > 0 \/ dbg
             THEN Result(Stop(m.st, "segv"), NULL)
             ELSE Result(m.st, NULL)
        ELSE Result(Touched([m.st EXCEPT !.mem = Store(@, m.ret, m.ret + blockSize, 0)],
                            m.ret, m.ret + blockSize),
                    m.ret)

(***************************************************************************)
(* The calls of the client.  It frees and resizes only pointers it holds,  *)
(* and it writes a block when malloc has just given it, over the bytes it  *)
(* asked for.  fail says which sbrk(delta > 0) of a call the environment   *)
(* refuses: the first, the second or none (0); Calls(k) are the values of  *)
(* fail for a call that makes k such calls when none is refused.           *)
(***************************************************************************)
Begin == [Cur EXCEPT !.log = <<>>]

Install(st) ==
    /\ brk' = st.brk
    /\ BlockBase' = st.BlockBase
    /\ CurrentTopBreak' = st.CurrentTopBreak
    /\ CurrentFreeSpace' = st.CurrentFreeSpace
    /\ hdr' = st.hdr
    /\ mem' = st.mem
    /\ log' = st.log
    /\ status' = st.status

Returned(st) == st.status \in {"ok", "wild"}

\* The recorded size of the block GetBlockHeader finds for ptr, 0 if none.
OldSize(ptr) ==
    IF ptr # NULL /\ GetBlockHeader(ptr) \in DOMAIN hdr
    THEN hdr[GetBlockHeader(ptr)].size ELSE 0

Called(op, ptr, size, ret) ==
    [op |-> op, ptr |-> ptr, size |-> size, ret |-> ret, old |-> OldSize(ptr)]

\* The client's pointers after a call that took ptr and gave ret.
Held(l, st, ptr, ret) ==
    IF Returned(st) THEN (l \ {ptr}) \cup ({ret} \ {NULL}) ELSE l

Calls(r) == 0 .. Len(r.st.log)

\* The values an uninitialised local of realloc(ptr, ..) can be read as.
Uninit(ptr) ==
    IF ptr # NULL /\ GetBlockHeader(ptr) \in DOMAIN hdr
                  /\ hdr[GetBlockHeader(ptr)].next = NULL
    THEN Garbage ELSE {0}

CallMalloc ==
    /\ status = "ok"
    /\ \E size \in MallocSizes :
       \E fail \in Calls(malloc(Begin, size, TRUE)) :
         LET r == malloc(Begin, size, fail # 1)
         IN  /\ Install(r.st)
             /\ call' = Called("malloc", NULL, size, r.ret)
             /\ live' = Held(live, r.st, NULL, r.ret)

CallFree ==
    /\ status = "ok"
    /\ \E ptr \in live \cup {NULL} :
         LET st == free(Begin, ptr)
         IN  /\ Install(st)
             /\ call' = Called("free", ptr, 0, NULL)
             /\ live' = Held(live, st, ptr, NULL)

\* The client calls realloc(ptr, size).
ReallocStep(ptr, size) ==
    \E junk \in Uninit(ptr) :
    \E fail \in Calls(realloc(Begin, ptr, size, TRUE, TRUE, junk)) :
      LET r == realloc(Begin, ptr, size, fail # 1, fail # 2, junk)
      IN  /\ Install(r.st)
          /\ call' = Called("realloc", ptr, size, r.ret)
          /\ live' = Held(live, r.st, ptr, r.ret)

CallRealloc ==
    /\ status = "ok"
    /\ \E ptr \in live \cup {NULL} :
       \E size \in (IF ptr = NULL THEN MallocSizes ELSE ReallocSizes) :
         ReallocStep(ptr, size)

\* The client resizes a block to more than a chunk.
CallReallocOversize ==
    /\ status = "ok"
    /\ \E ptr \in live : \E size \in Oversizes : ReallocStep(ptr, size)

CallCalloc ==
    /\ status = "ok"
    /\ \E nmemb \in Counts, size \in ElemSizes, dbg \in BOOLEAN :
       \E fail \in Calls(calloc(Begin, nmemb, size, TRUE, dbg)) :
         LET r == calloc(Begin, nmemb, size, fail # 1, dbg)
         IN  /\ Install(r.st)
             /\ call' = Called("calloc", NULL, nmemb * size, r.ret)
             /\ live' = Held(live, r.st, NULL, r.ret)

\* The client writes one byte value over the block malloc has just given it.
ClientFill ==
    /\ status = "ok"
    /\ call.op = "malloc"
    /\ call.ret \in live
    /\ \E v \in FillBytes :
         Install(Touched([Begin EXCEPT
                            !.mem = Store(@, call.ret, call.ret + call.size, v)],
                         call.ret, call.ret + call.size))
    /\ call' = Called("fill", call.ret, call.size, NULL)
    /\ UNCHANGED live

InitAt(start) ==
    /\ brk = start
    /\ BlockBase = NULL
    /\ CurrentTopBreak = 0
    /\ CurrentFreeSpace = 0
    /\ hdr = << >>
    /\ mem = {}
    /\ log = << >>
    /\ status = "ok"
    /\ live = {}
    /\ call = [op |-> "none", ptr |-> NULL, size |-> 0, ret |-> NULL, old |-> 0]

Init == InitAt(HeapStart)

InitAnyBreak == \E start \in AnyHeapStart : InitAt(start)

Next ==
    \/ CallMalloc
    \/ CallFree
    \/ CallRealloc
    \/ CallCalloc
    \/ ClientFill

Spec == Init /\ [][Next]_vars

\* The client may also ask for blocks larger than a chunk.
NextOversize ==
    \/ Next
    \/ CallReallocOversize

SpecOversize == Init /\ [][NextOversize]_vars

SpecAnyBreak == InitAnyBreak /\ [][Next]_vars

(***************************************************************************)
(* What the properties below speak of.                                     *)
(***************************************************************************)
\* sizeof(BlockHeader) rounded up to a multiple of BUSDIV.
HeaderPaddedSize == AlignUp(HEADERSIZE)

\* The headers from a on, in list order, up to the tail or to the first one
\* met twice.
RECURSIVE Chain(_, _, _)
Chain(h, a, seen) ==
    IF a = NULL \/ a \in seen \/ a \notin DOMAIN h THEN << >>
    ELSE <<a>> \o Chain(h, h[a].next, seen \cup {a})

List == Chain(hdr, BlockBase, {})

\* The places in the list of the free blocks of at least n bytes.
Fitting(n) == {i \in 1 .. Len(List) : hdr[List[i]].free # 0 /\ hdr[List[i]].size >= n}

FirstFit(n) == List[CHOOSE i \in Fitting(n) : \A j \in Fitting(n) : i <= j]

\* The last step was a call of op that came back.
Came(op) == call.op = op /\ status \in {"ok", "wild"}

\* The allocator's own state is what it was.
Untouched ==
    UNCHANGED <<brk, BlockBase, CurrentTopBreak, CurrentFreeSpace, hdr, mem>>

(***************************************************************************)
(* C1.  No overlap: for every header h1 with a successor h2 = h1.next,     *)
(* h2 >= h1 + HeaderPaddedSize + h1.size, in every reachable state.        *)
(* Violated: realloc grows a block in place up to sizeof(BlockHeader) + m  *)
(* <= gap, 8 bytes more than the padded header leaves.                     *)
(***************************************************************************)
NoOverlap ==
    \A h1 \in DOMAIN hdr :
        hdr[h1].next # NULL => hdr[h1].next >= h1 + HeaderPaddedSize + hdr[h1].size

(***************************************************************************)
(* C2.  Alignment: every non-null address malloc, realloc or calloc        *)
(* returns is a multiple of BUSDIV, whatever break the process started at. *)
(***************************************************************************)
ReturnsAligned ==
    (call.op \in {"malloc", "realloc", "calloc"} /\ call.ret # NULL)
        => call.ret % BUSDIV = 0

\* malloc has returned a block whose header is not aligned.
ReturnsAlignedWitness ==
    /\ Came("malloc")
    /\ call.ret # NULL
    /\ \E a \in DOMAIN hdr : a % BUSDIV # 0 /\ DataStart(a) = call.ret

(***************************************************************************)
(* C3.  Header recovery: for every initial break and every pointer p a     *)
(* successful malloc returns, GetBlockHeader(p) is the header malloc       *)
(* carved or reused (a header of the list, not free), and the data start   *)
(* of that header is p.  Violated when the initial break is no multiple of *)
(* BUSDIV: GetBlock puts the header at the break as it is.                 *)
(***************************************************************************)
HeaderRecovery ==
    (Came("malloc") /\ call.ret # NULL)
        => /\ GetBlockHeader(call.ret) \in DOMAIN hdr
           /\ hdr[GetBlockHeader(call.ret)].free = 0
           /\ DataStart(GetBlockHeader(call.ret)) = call.ret

\* malloc(n) takes the first free block of at least n bytes and nothing else:
\* its free flag is cleared, its size and every other header stay, no header
\* is added and sbrk is not called.
ReusesFirstFit(n) ==
    /\ status' = "ok"
    /\ call'.ret = DataStart(FirstFit(n))
    /\ hdr' = [hdr EXCEPT ![FirstFit(n)].free = 0]
    /\ hdr'[FirstFit(n)].size >= n
    /\ log' = << >>
    /\ UNCHANGED <<brk, BlockBase, CurrentTopBreak, CurrentFreeSpace, mem>>

\* C4 as stated, for every n: violated by malloc(0), which returns NULL at
\* line 149 whatever the list holds.
FirstFitReuseAnySize ==
    [][(call'.op = "malloc" /\ BlockBase # NULL /\ Fitting(call'.size) # {})
          => ReusesFirstFit(call'.size)]_vars

(***************************************************************************)
(* C4.  First-fit reuse, for n > 0: when the list holds a free block of at *)
(* least n bytes, malloc(n) returns the data start of the first such block *)
(* in list order, clears its free flag, leaves its size and every other    *)
(* header alone, adds no header and does not call sbrk.                    *)
(***************************************************************************)
FirstFitReuse ==
    [][(call'.op = "malloc" /\ call'.size > 0 /\ BlockBase # NULL
                            /\ Fitting(call'.size) # {})
          => ReusesFirstFit(call'.size)]_vars

\* malloc has reused a block that is not the first of the list: the blocks
\* before it are in use or too small.
FirstFitReuseWitness ==
    /\ Came("malloc")
    /\ call.ret # NULL
    /\ log = << >>
    /\ Len(List) >= 2
    /\ call.ret = DataStart(List[2])

\* The call of the step is realloc(p, m) on a pointer p the client holds,
\* with m > 0; Block is the header of p and Recorded its size before the call.
Resizes == call'.op = "realloc" /\ call'.ptr \in live /\ call'.size > 0

Block == GetBlockHeader(call'.ptr)

Recorded == OldSize(call'.ptr)

\* sbrk refused an extension during the call of the step.
Refused == \E i \in 1 .. Len(log') : ~log'[i]

(***************************************************************************)
(* C5.  Shrink with salvage: realloc(p, m) with 0 < m < s and              *)
(* s - m > sizeof(BlockHeader) returns p, and afterwards the block has     *)
(* size m and is not free.  Stated for the calls in which sbrk refuses     *)
(* nothing.  Violated: the salvage block is carved, and the call then goes *)
(* on to relocate p (line 285 compares the negative spaceNeeded as an      *)
(* unsigned value), where FindFreeBlock does not leave the salvage block,  *)
(* whose next is itself.                                                   *)
(***************************************************************************)
ShrinkWithSalvage ==
    [][(Resizes /\ Recorded - call'.size > HEADERSIZE /\ ~Refused)
          => /\ status' = "ok"
             /\ call'.ret = call'.ptr
             /\ hdr'[Block].size = call'.size
             /\ hdr'[Block].free = 0]_vars

(***************************************************************************)
(* C6.  Grow in place when the gap suffices: for a block h with a          *)
(* successor and size s, realloc(p, m) with m > s and                      *)
(* h.next - (h + HeaderPaddedSize + s) >= m - s returns p, sets h.size to  *)
(* m, adds no header, changes no other block and does not call sbrk.       *)
(***************************************************************************)
GapSuffices(h, s, m, next) ==
    next # NULL /\ m > s /\ next - (h + HeaderPaddedSize + s) >= m - s

RelocationKeepsContent ==
    [][(Resizes /\ call'.size > Recorded /\ status' \in {"ok", "wild"}
                /\ call'.ret \notin {NULL, call'.ptr})
          => /\ SameBytes(mem', call'.ret, mem, call'.ptr, Recorded)
             /\ hdr'[Block].free = 1
             /\ GetBlockHeader(call'.ret) \in DOMAIN hdr'
             /\ hdr'[GetBlockHeader(call'.ret)].free = 0
             /\ hdr'[GetBlockHeader(call'.ret)].size >= call'.size]_vars

(***************************************************************************)
(* C8.  Out of memory in malloc: if sbrk refuses while malloc(n) carves a  *)
(* block, malloc returns NULL and BlockBase, CurrentTopBreak,              *)
(* CurrentFreeSpace and every header are as before the call.               *)
(***************************************************************************)
MallocOutOfMemory ==
    [][(call'.op = "malloc" /\ Refused)
          => (status' = "ok" /\ call'.ret = NULL /\ Untouched)]_vars

\* sbrk has refused malloc a block to put behind the last of the list.
MallocOutOfMemoryWitness ==
    /\ Came("malloc")
    /\ log = <<FALSE>>
    /\ call.size > 0
    /\ BlockBase # NULL

(***************************************************************************)
(* C9.  Out of memory in realloc: if sbrk refuses during realloc(p, m),    *)
(* realloc returns NULL without going through a null pointer, and the      *)
(* allocator state is as before the call.  Violated: the NULL GetBlock     *)
(* returns is written through at line 275, and the NULL malloc returns is  *)
(* handed to memcpy at line 294.                                           *)
(***************************************************************************)
ReallocOutOfMemory ==
    [][(Resizes /\ Refused)
          => (status' = "ok" /\ call'.ret = NULL /\ Untouched)]_vars

(***************************************************************************)
(* C10.  Zero-fill: after a successful q = calloc(n, s) with n * s > 0,    *)
(* on a new block or on a reused one that holds old data, every byte of    *)
(* [q, q + n * s) is 0 and the block's recorded size is >= n * s.          *)
(***************************************************************************)
ZeroFill ==
    (Came("calloc") /\ call.ret # NULL)
        => /\ AllBytes(mem, call.ret, call.size, 0)
           /\ GetBlockHeader(call.ret) \in DOMAIN hdr
           /\ hdr[GetBlockHeader(call.ret)].size >= call.size

\* calloc has reused a block the client had written: the bytes behind the
\* ones calloc was asked for still hold what it wrote.
ZeroFillWitness ==
    /\ Came("calloc")
    /\ call.ret # NULL
    /\ log = << >>
    /\ \E v \in FillBytes : ByteAt(mem, call.ret + call.size) = v

(***************************************************************************)
(* C11.  calloc null guard: whenever the malloc inside calloc returns NULL *)
(* (the total size is 0, or sbrk refuses), calloc does no zero-fill and    *)
(* goes through no null pointer; it returns NULL and the allocator state   *)
(* is as before the call.  Violated: line 320 hands malloc's result to     *)
(* memset unchecked, and the debug line 325 reads GetBlockHeader(NULL).    *)
(***************************************************************************)
CallocNullGuard ==
    [][(call'.op = "calloc" /\ (call'.size = 0 \/ Refused))
          => (status' = "ok" /\ call'.ret = NULL /\ Untouched)]_vars

\* The allocator state after the step is st.
Leaves(st) ==
    /\ brk' = st.brk
    /\ BlockBase' = st.BlockBase
    /\ CurrentTopBreak' = st.CurrentTopBreak
    /\ CurrentFreeSpace' = st.CurrentFreeSpace
    /\ hdr' = st.hdr
    /\ mem' = st.mem
    /\ status' = st.status

(***************************************************************************)
(* C12.  realloc's edge cases: realloc(NULL, k) returns the pointer and    *)
(* leaves the state that malloc(k) does from the same state (with sbrk     *)
(* answering alike); realloc(p, 0) on a pointer the client holds returns   *)
(* NULL and leaves the state free(p) does: the block of p marked free,     *)
(* nothing else changed.                                                   *)
(***************************************************************************)
ReallocEdgeCases ==
    [][/\ (call'.op = "realloc" /\ call'.ptr = NULL)
            => /\ call'.ret = malloc(Begin, call'.size, ~Refused).ret
               /\ Leaves(malloc(Begin, call'.size, ~Refused).st)
       /\ (call'.op = "realloc" /\ call'.ptr \in live /\ call'.size = 0)
            => /\ call'.ret = NULL
               /\ Leaves(free(Begin, call'.ptr))
               /\ hdr' = [hdr EXCEPT ![Block].free = 1]
               /\ log' = << >>
               /\ UNCHANGED <<brk, BlockBase, CurrentTopBreak, CurrentFreeSpace,
                              mem, status>>]_vars

\* realloc(p, 0) has freed a block that is not the first of the list, while
\* the client still holds another.
ReallocEdgeCasesWitness ==
    /\ Came("realloc")
    /\ call.ptr # NULL
    /\ call.size = 0
    /\ call.ret = NULL
    /\ Len(List) >= 2
    /\ GetBlockHeader(call.ptr) = List[2]
    /\ hdr[List[2]].free = 1
    /\ live # {}

(***************************************************************************)
(* C13.  Invalid request: malloc(0) returns NULL in every state and        *)
(* changes nothing: no header is added or modified, the break is not       *)
(* extended, and BlockBase, CurrentTopBreak and CurrentFreeSpace stay.     *)
(***************************************************************************)
MallocZero ==
    [][(call'.op = "malloc" /\ call'.size = 0)
          => (status' = "ok" /\ call'.ret = NULL /\ log' = << >> /\ Untouched)]_vars

\* malloc(0) has been called with a free block in the list.
MallocZeroWitness ==
    /\ Came("malloc")
    /\ call.size = 0
    /\ call.ret = NULL
    /\ Fitting(0) # {}

(***************************************************************************)
(* C14.  List well-formedness: in every reachable state the chain from     *)
(* BlockBase ends at NULL with no header met twice, header addresses       *)
(* increase strictly along it, and every header ever carved is on it.      *)
(* Violated: the salvage branch of realloc (lines 274-276) makes the new   *)
(* block its own successor and drops the old successor from the chain.     *)
(***************************************************************************)
ListWellFormed ==
    /\ IF List = << >> THEN BlockBase = NULL
       ELSE hdr[List[Len(List)]].next = NULL
    /\ \A i \in 1 .. (Len(List) - 1) : List[i] < List[i + 1]
    /\ DOMAIN hdr = {List[i] : i \in 1 .. Len(List)}

(***************************************************************************)
(* C15.  Salvage splice: when realloc shrinks a block h by more than       *)
(* sizeof(BlockHeader) bytes (and sbrk refuses nothing), the new salvage   *)
(* block b is free, has size old size - new size - sizeof(BlockHeader),    *)
(* and is spliced behind h: h.next = b and b.next is what h.next was.      *)
(* Violated: GetBlock leaves b with free = 0, and line 275 reads h.next    *)
(* after GetBlock has set it to b, so b.next = b.                          *)
(***************************************************************************)
SalvageSplice ==
    [][(Resizes /\ Block \in DOMAIN hdr /\ Recorded - call'.size > HEADERSIZE
                /\ ~Refused)
          => \E b \in DOMAIN hdr' \ DOMAIN hdr :
                /\ hdr'[b].free = 1
                /\ hdr'[b].size = Recorded - call'.size - HEADERSIZE
                /\ hdr'[Block].next = b
                /\ hdr'[b].next = hdr[Block].next]_vars

\* The padded size of a block of n bytes: malloc.c:34-43.
PaddedSize(n) == AlignUp(n + HeaderPaddedSize)

(***************************************************************************)
(* C16.  Slack reuse: once a chunk has been extended, malloc(n) that has   *)
(* to carve a block of padded size s with CurrentFreeSpace + s <=          *)
(* CurrentTopBreak does not call sbrk with a positive delta, places the    *)
(* block at CurrentFreeSpace and advances CurrentFreeSpace by s.           *)
(* Violated: GetBlock tests sbrk(0) + s against CurrentTopBreak, and       *)
(* sbrk(0) is CurrentTopBreak, so it extends the break for every block;    *)
(* CurrentFreeSpace is set to the old break and never advanced.            *)
(***************************************************************************)
SlackReuse ==
    [][(/\ call'.op = "malloc" /\ call'.size > 0
        /\ CurrentTopBreak # 0
        /\ BlockBase # NULL /\ Fitting(call'.size) = {}
        /\ status' # "hang"
        /\ CurrentFreeSpace + PaddedSize(call'.size) <= CurrentTopBreak)
          => /\ log' = << >>
             /\ call'.ret = DataStart(CurrentFreeSpace)
             /\ CurrentFreeSpace' = CurrentFreeSpace + PaddedSize(call'.size)]_vars

(***************************************************************************)
(* C17.  Grow in place at the tail: for a block h with no successor and    *)
(* size s, realloc(p, m) with m > s and m - s <= CurrentTopBreak -         *)
(* CurrentFreeSpace returns p with h.size = m.  Violated: line 284         *)
(* compares the address in CurrentFreeSpace with spaceNeeded, which fails, *)
(* and line 285 then reads blockFreeSpace, which was never assigned; when  *)
(* it reads as a small value the block is moved.                           *)
(***************************************************************************)
GrowAtTail ==
    [][(Resizes /\ Block \in DOMAIN hdr /\ hdr[Block].next = NULL
                /\ call'.size > Recorded
                /\ call'.size - Recorded <= CurrentTopBreak - CurrentFreeSpace)
          => /\ status' = "ok"
             /\ call'.ret = call'.ptr
             /\ hdr'[Block].size = call'.size]_vars

(***************************************************************************)
(* C18.  Termination: every call of malloc, calloc and realloc returns; in *)
(* particular the scan of FindFreeBlock reaches a fitting free block or    *)
(* the null tail, also after a realloc that shrank a block.  The scan      *)
(* keeps no memory, so it fails to end exactly when it comes back to a     *)
(* header it has left, which the model records as status "hang".           *)
(* Violated: after the salvage branch the list has a block whose next is   *)
(* itself, and the next scan for a block it cannot serve stays on it.      *)
(***************************************************************************)
CallsTerminate == status # "hang"

\* The data regions [p, p + recorded size) of the pointers of l, with the
\* headers h, are pairwise disjoint.
Disjoint(l, h) ==
    \A p1 \in l : \A p2 \in l \ {p1} :
        (GetBlockHeader(p1) \in DOMAIN h /\ GetBlockHeader(p2) \in DOMAIN h)
            => \/ p1 + h[GetBlockHeader(p1)].size <= p2
               \/ p2 + h[GetBlockHeader(p2)].size <= p1

(***************************************************************************)
(* C19.  No double hand-out: no call returns a pointer the client holds    *)
(* (other than realloc returning its own argument), and the data regions   *)
(* [p, p + recorded size) of the pointers it holds are pairwise disjoint.  *)
(* Violated: realloc on a tail block decides on the unassigned             *)
(* blockFreeSpace; when that reads as a large value the block grows in     *)
(* place past its chunk, and the next block is carved inside its region.   *)
(***************************************************************************)
NoDoubleHandOut ==
    [][/\ (call'.op \in {"malloc", "calloc", "realloc"} /\ call'.ret # NULL)
            => call'.ret \notin live \ {call'.ptr}
       /\ Disjoint(live', hdr')]_vars

(***************************************************************************)
(* C20.  Bounded relocation copy: whenever realloc relocates a block, the  *)
(* number of bytes it copies (the old block's recorded size, line 294) is  *)
(* at most the destination block's recorded size, also when the relocate   *)
(* branch is reached by a shrinking request.  Violated: a shrink by at     *)
(* most sizeof(BlockHeader) bytes of a block with a successor relocates,   *)
(* and malloc may hand it a block of just the new size.                    *)
(***************************************************************************)
BoundedCopy ==
    [][(Resizes /\ status' \in {"ok", "wild"}
                /\ call'.ret \notin {NULL, call'.ptr}
                /\ GetBlockHeader(call'.ret) \in DOMAIN hdr')
          => Recorded <= hdr'[GetBlockHeader(call'.ret)].size]_vars

=============================================================================
